---- MODULE Spec2Model ----
(***************************************************************************)
(* Norway Macro Clock (egil10/gjeldsur).                                   *)
(*                                                                         *)
(* Four state machines share this module:                                  *)
(*   SpecDash   - web/src/pages/Dashboard.tsx: loadDashboard and render    *)
(*   SpecEnrich - the enrichment routine `enrich` (README template)        *)
(*   SpecPipe   - the pipeline orchestrator and artifact writer            *)
(*   SpecFetch  - the resilient fetch client's retry state machine         *)
(* SpecPipe and SpecFetch (pipelines/run_all.py, adapters/) follow the     *)
(* design document, sections 4.1, 4.5, 4.6, 5, 6 and 7.                    *)
(***************************************************************************)
EXTENDS Integers, Sequences, FiniteSets, TLC

VARIABLES
    \* ---- Dashboard.tsx (React component state and loadDashboard) ----
    pc,             \* position of the async function loadDashboard
    indexData,      \* useState<IndexData | null>
    lastUpdated,    \* useState<string>
    indicatorData,  \* useState<Record<string, IndicatorData>>
    loading,        \* useState(true)
    errors,         \* useState<Record<string, string>>
    fetched,        \* per indicator: the promise of fetchIndicatorData(id)
    promise,        \* per indicator: the promise built by index.indicators.map
    logged,         \* console.error was called by the outer catch
    \* ---- enrich(df) ----
    series,         \* df["value"]: the values of the Series, ascending by date
    snapshot,       \* what enrich(df) returned or raised for the current series
    \* ---- Orchestrator and Artifact Writer (one pipeline run) ----
    state,          \* per indicator: pending .. published | failed
    errKind,        \* per indicator: the run report's slot, "none" or the error kind
    prior,          \* per indicator: the artifact on disk when the run started
    artifact,       \* per indicator: the IndicatorArtifact file a reader sees
    staging,        \* per indicator: the writer's private build of the new artifact
    indexArtifact,  \* the IndexArtifact on disk
    run,            \* running | indexed | exited | interrupted
    exitCode,       \* the process exit code, -1 while the process lives
    \* ---- Resilient Fetch Client (one fetch per request) ----
    mockMode,       \* run-wide offline/mock mode
    phase,          \* per request: idle | attempting | backoff | success | failed
    attempts,       \* per request: attempts made so far
    lastError       \* per request: the last attempt's error, "none" if none

dashVars == <<pc, indexData, lastUpdated, indicatorData, loading, errors,
              fetched, promise, logged>>

enrichVars == <<series, snapshot>>

pipeVars == <<state, errKind, prior, artifact, staging, indexArtifact, run, exitCode>>

fetchVars == <<mockMode, phase, attempts, lastError>>

vars == <<dashVars, enrichVars, pipeVars, fetchVars>>

notDash == <<enrichVars, pipeVars, fetchVars>>
notEnrich == <<dashVars, pipeVars, fetchVars>>
notPipe == <<dashVars, enrichVars, fetchVars>>
notFetch == <<dashVars, enrichVars, pipeVars>>

\* ------------------------------------------------------------------------
\* Bounds
\* ------------------------------------------------------------------------
\* Number of indicator ids the served index may list.
MaxIndicators == 3
\* Longest series handed to enrich, and the largest value of a point.
MaxLen == 14
MaxValue == 1
\* Catalog size and worker count of a pipeline run.
NumIndicators == 3
MaxWorkers == 2
\* Concurrent fetches, and the fetch client's configured attempt limit.
NumRequests == 2
MaxAttempts == 3

\* ------------------------------------------------------------------------
\* Dashboard.tsx
\* ------------------------------------------------------------------------
Null == [tag |-> "null"]

IndicatorIds == 1..MaxIndicators

\* FetchError messages (lib/fetch); the empty message is a legal Error message.
FetchErrorMessages == {"HTTP 404", ""}

\* `error instanceof FetchError ? error.message : 'Failed to load data'`
FetchErrorOf(msg) == [tag |-> "FetchError", message |-> msg]
OtherError == [tag |-> "Error", message |-> "boom"]
Rejections == {FetchErrorOf(m) : m \in FetchErrorMessages} \cup {OtherError}

ErrorMessage(error) ==
    IF error.tag = "FetchError" THEN error.message ELSE "Failed to load data"

\* What fetchIndicatorData(id) may resolve with: a document, or a falsy value.
DataOf(id) == [tag |-> "data", id |-> id]
Resolutions(id) == {DataOf(id), Null}

\* What fetchIndex() may resolve with; ids are unique within an index.
LastUpdatedValues == {"", "2024-01-01T06:00:00Z"}
IndexDocs ==
    {[tag |-> "index", indicators |-> S, last_updated |-> t] :
        S \in SUBSET IndicatorIds, t \in LastUpdatedValues}

\* JavaScript truthiness of the values stored in the two records.
TruthyData(d) == d # Null
TruthyString(s) == s # ""

\* Record<string, T> as a function whose domain is the set of keys.
EmptyRecord == [k \in {} |-> Null]
Put(rec, key, val) ==
    [k \in (DOMAIN rec) \cup {key} |-> IF k = key THEN val ELSE rec[k]]

Idle == [status |-> "idle"]
Pending == [status |-> "pending"]
Fulfilled(id, data) == [status |-> "fulfilled", value |-> [id |-> id, data |-> data]]
Resolved(data) == [status |-> "resolved", value |-> data]
Rejected(error) == [status |-> "rejected", reason |-> error]

DashIdle ==
    /\ pc = "mount"
    /\ indexData = Null
    /\ lastUpdated = ""
    /\ indicatorData = EmptyRecord
    /\ loading = TRUE
    /\ errors = EmptyRecord
    /\ fetched = [i \in IndicatorIds |-> Idle]
    /\ promise = [i \in IndicatorIds |-> Idle]
    /\ logged = FALSE

EnrichIdle ==
    /\ series = <<>>
    /\ snapshot = [tag |-> "none"]

Catalog == 1..NumIndicators
Requests == 1..NumRequests

PipeIdle ==
    /\ state = [i \in Catalog |-> "pending"]
    /\ errKind = [i \in Catalog |-> "none"]
    /\ prior = [i \in Catalog |-> "absent"]
    /\ artifact = [i \in Catalog |-> "absent"]
    /\ staging = [i \in Catalog |-> "none"]
    /\ indexArtifact = [written |-> FALSE, indicators |-> {}]
    /\ run = "running"
    /\ exitCode = -1

FetchIdle ==
    /\ mockMode = FALSE
    /\ phase = [r \in Requests |-> "idle"]
    /\ attempts = [r \in Requests |-> 0]
    /\ lastError = [r \in Requests |-> "none"]

InitDash == DashIdle /\ EnrichIdle /\ PipeIdle /\ FetchIdle

\* useEffect(() => { loadDashboard() }, []): runs up to `await fetchIndex()`.
Mount ==
    /\ pc = "mount"
    /\ loading' = TRUE
    /\ pc' = "awaitIndex"
    /\ UNCHANGED notDash
    /\ UNCHANGED <<indexData, lastUpdated, indicatorData, errors, fetched, promise, logged>>

\* The promises started by index.indicators.map(async (indicator) => ...):
\* each callback runs synchronously up to `await fetchIndicatorData(id)`.
StartFetches(index) ==
    [i \in IndicatorIds |-> IF i \in index.indicators THEN Pending ELSE Idle]

\* fetchIndex() resolves: setIndexData, setLastUpdated, start every indicator
\* fetch, then suspend at `await Promise.allSettled(dataPromises)`.
IndexResolved ==
    /\ pc = "awaitIndex"
    /\ \E index \in IndexDocs :
        /\ indexData' = index
        /\ lastUpdated' = index.last_updated
        /\ fetched' = StartFetches(index)
        /\ promise' = StartFetches(index)
    /\ pc' = "awaitAll"
    /\ UNCHANGED notDash
    /\ UNCHANGED <<indicatorData, loading, errors, logged>>

\* fetchIndex() rejects: outer catch logs, control passes to finally.
IndexRejected ==
    /\ pc = "awaitIndex"
    /\ logged' = TRUE
    /\ pc' = "finally"
    /\ UNCHANGED notDash
    /\ UNCHANGED <<indexData, lastUpdated, indicatorData, loading, errors, fetched,
                   promise>>

\* fetchIndicatorData(id) resolves: `return { id: indicator.id, data }`.
FetchResolved(i) ==
    /\ fetched[i] = Pending
    /\ \E data \in Resolutions(i) :
        /\ fetched' = [fetched EXCEPT ![i] = Resolved(data)]
        /\ promise' = [promise EXCEPT ![i] = Fulfilled(i, data)]
    /\ UNCHANGED notDash
    /\ UNCHANGED <<pc, indexData, lastUpdated, indicatorData, loading, errors, logged>>

\* Variant: the updater forgets the spread of `prev`.
RecordErrorNoSpread(prev, i, error) == Put(EmptyRecord, i, ErrorMessage(error))

\* The inner catch: setErrors(prev => ({...prev, [id]: errorMessage})).
RecordError(prev, i, error) == Put(prev, i, ErrorMessage(error))

\* fetchIndicatorData(id) rejects: inner catch stores the message and
\* returns { id, data: null }.
FetchRejected(i) ==
    /\ fetched[i] = Pending
    /\ \E error \in Rejections :
        /\ fetched' = [fetched EXCEPT ![i] = Rejected(error)]
        /\ errors' = RecordError(errors, i, error)
    /\ promise' = [promise EXCEPT ![i] = Fulfilled(i, Null)]
    /\ UNCHANGED notDash
    /\ UNCHANGED <<pc, indexData, lastUpdated, indicatorData, loading, logged>>

AllSettled == \A i \in IndicatorIds : promise[i] # Pending

\* results.forEach: keep fulfilled results whose data is truthy.
NewIndicatorData(results) ==
    LET kept == {i \in IndicatorIds :
                    /\ results[i].status = "fulfilled"
                    /\ TruthyData(results[i].value.data)}
    IN [i \in kept |-> results[i].value.data]

\* Promise.allSettled resolves: build newIndicatorData, setIndicatorData.
StoreIndicatorData ==
    /\ pc = "awaitAll"
    /\ AllSettled
    /\ indicatorData' = NewIndicatorData(promise)
    /\ pc' = "finally"
    /\ UNCHANGED notDash
    /\ UNCHANGED <<indexData, lastUpdated, loading, errors, fetched, promise, logged>>

\* Variant: setLoading(false) sits at the end of the try block, so the
\* outer catch path leaves loading untouched.
FinallyOnlyOnSuccess ==
    /\ pc = "finally"
    /\ loading' = (IF logged THEN loading ELSE FALSE)
    /\ pc' = "done"
    /\ UNCHANGED notDash
    /\ UNCHANGED <<indexData, lastUpdated, indicatorData, errors, fetched, promise, logged>>

\* finally { setLoading(false) }
Finally ==
    /\ pc = "finally"
    /\ loading' = FALSE
    /\ pc' = "done"
    /\ UNCHANGED notDash
    /\ UNCHANGED <<indexData, lastUpdated, indicatorData, errors, fetched, promise, logged>>

\* Variant: the `if (!indexData)` return is missing.
ViewNoIndexCheck == IF loading THEN "loading" ELSE "tiles"

\* The component's render, a function of its state.
View ==
    IF loading THEN "loading"
    ELSE IF indexData = Null THEN "failed"
    ELSE "tiles"

\* The tiles drawn by indexData.indicators.map in the third return.
TileKind(i) ==
    LET hasData == i \in DOMAIN indicatorData /\ TruthyData(indicatorData[i])
        hasError == i \in DOMAIN errors /\ TruthyString(errors[i])
    IN IF ~hasData /\ ~hasError THEN "placeholder"
       ELSE IF hasError THEN "error"
       ELSE "tile"

Tiles ==
    IF View = "tiles" THEN [i \in indexData.indicators |-> TileKind(i)]
    ELSE EmptyRecord

NextDash ==
    \/ Mount
    \/ IndexResolved
    \/ IndexRejected
    \/ \E i \in IndicatorIds : FetchResolved(i)
    \/ \E i \in IndicatorIds : FetchRejected(i)
    \/ StoreIndicatorData
    \/ Finally

SpecDash == InitDash /\ [][NextDash]_vars

\* Every started fetch settles and every continuation is eventually run.
SpecDashFair == SpecDash /\ WF_vars(NextDash)

\* ------------------------------------------------------------------------
\* enrich(df) - the enrichment routine
\* ------------------------------------------------------------------------
\* Offsets and length guards of the two deltas.
MomBack == 2
MomGuard == 1
YoyBack == 13
YoyGuard == 13

PointValues == 0..MaxValue

None == [tag |-> "None"]
NoSnapshot == [tag |-> "none"]
Raise(exc) == [tag |-> "raise", exception |-> exc]

\* float(x) of a finite number n/d (d # 0), kept exact; rounding is not modelled.
Float(n, d) == [tag |-> "float", num |-> n, den |-> d]
Inf == [tag |-> "inf"]
NaN == [tag |-> "nan"]

\* s.iloc[-k] for 1 <= k <= len(s).
ILocBack(s, k) == s[Len(s) - k + 1]

\* (new/old - 1) * 100 on float64 values: x/0 is inf, 0/0 is nan.
PctChange(new, old) ==
    IF old = 0 THEN (IF new = 0 THEN NaN ELSE Inf)
    ELSE Float((new - old) * 100, old)

RECURSIVE SeqMin(_)
SeqMin(s) ==
    IF Len(s) = 1 THEN s[1]
    ELSE LET m == SeqMin(Tail(s)) IN IF s[1] < m THEN s[1] ELSE m

RECURSIVE SeqMax(_)
SeqMax(s) ==
    IF Len(s) = 1 THEN s[1]
    ELSE LET m == SeqMax(Tail(s)) IN IF s[1] > m THEN s[1] ELSE m

\* "mom_pct": float((s.iloc[-1]/s.iloc[-2]-1)*100) if len(s)>1 else None
MomPct(s) ==
    IF Len(s) > MomGuard THEN PctChange(ILocBack(s, 1), ILocBack(s, MomBack))
    ELSE None

\* "yoy_pct": float((s.iloc[-1]/s.iloc[-13]-1)*100) if len(s)>13 else None
YoyPct(s) ==
    IF Len(s) > YoyGuard THEN PctChange(ILocBack(s, 1), ILocBack(s, YoyBack))
    ELSE None

\* The dict is built key by key; s.iloc[-1] on an empty Series raises.
Enrich(s) ==
    IF Len(s) = 0 THEN Raise("IndexError")
    ELSE [tag |-> "snapshot",
          latest_value |-> Float(ILocBack(s, 1), 1),
          mom_pct |-> MomPct(s),
          yoy_pct |-> YoyPct(s),
          min |-> Float(SeqMin(s), 1),
          max |-> Float(SeqMax(s), 1)]

InitEnrich == DashIdle /\ EnrichIdle /\ PipeIdle /\ FetchIdle

\* One more point of the normalized series; the snapshot is recomputed from
\* the current series and never kept across a change of it.
AppendPoint ==
    /\ Len(series) < MaxLen
    /\ \E v \in PointValues : series' = Append(series, v)
    /\ snapshot' = NoSnapshot
    /\ UNCHANGED notEnrich

\* snapshot = enrich(df)
EnrichSeries ==
    /\ snapshot = NoSnapshot
    /\ snapshot' = Enrich(series)
    /\ UNCHANGED series
    /\ UNCHANGED notEnrich

NextEnrich == AppendPoint \/ EnrichSeries

SpecEnrich == InitEnrich /\ [][NextEnrich]_vars

\* ------------------------------------------------------------------------
\* Orchestrator and Artifact Writer (design sections 4.5, 4.6, 5, 6, 7)
\* ------------------------------------------------------------------------
Terminal == {"published", "failed"}
InFlight == {"fetching", "normalizing", "enriching", "writing"}

\* FetchError tags (4.1) and the adapter's decode failure (4.2).
FetchFailures == {"network", "timeout", "tls", "http_status", "rate_limited",
                  "schema_mismatch"}

\* What a reader of indicator i's artifact file observes.
ReaderSees(i) == artifact[i]

\* The run starts over whatever earlier runs left published on disk.
InitPipe ==
    /\ DashIdle /\ EnrichIdle /\ FetchIdle
    /\ state = [i \in Catalog |-> "pending"]
    /\ errKind = [i \in Catalog |-> "none"]
    /\ prior \in [Catalog -> {"absent", "old"}]
    /\ artifact = prior
    /\ staging = [i \in Catalog |-> "none"]
    /\ indexArtifact = [written |-> FALSE,
                        indicators |-> {i \in Catalog : prior[i] # "absent"}]
    /\ run = "running"
    /\ exitCode = -1

Active == {i \in Catalog : state[i] \in InFlight}

\* Variant: an indicator's failure aborts the run, failing everything that
\* has not finished.
FailAbortsRun(st, i) ==
    [j \in Catalog |-> IF st[j] \in Terminal THEN st[j] ELSE "failed"]

\* An error caught at indicator granularity: only that indicator fails.
FailIndicator(st, i) == [st EXCEPT ![i] = "failed"]

\* pending -> fetching, while a worker is free.
StartIndicator(i) ==
    /\ run = "running"
    /\ state[i] = "pending"
    /\ Cardinality(Active) < MaxWorkers
    /\ state' = [state EXCEPT ![i] = "fetching"]
    /\ UNCHANGED <<errKind, prior, artifact, staging, indexArtifact, run, exitCode>>
    /\ UNCHANGED notPipe

\* fetching -> normalizing -> enriching -> writing, strictly in sequence.
NextStage(stage) ==
    CASE stage = "fetching" -> "normalizing"
      [] stage = "normalizing" -> "enriching"
      [] stage = "enriching" -> "writing"

StageSucceeds(i) ==
    /\ run = "running"
    /\ state[i] \in {"fetching", "normalizing", "enriching"}
    /\ state' = [state EXCEPT ![i] = NextStage(state[i])]
    /\ UNCHANGED <<errKind, prior, artifact, staging, indexArtifact, run, exitCode>>
    /\ UNCHANGED notPipe

\* The error kinds a stage can end with.  A run-level timeout aborts an
\* indicator in `fetching` as failed{timeout}, the transition a fetch
\* timeout makes.
StageFailures(stage) ==
    CASE stage = "fetching" -> FetchFailures
      [] stage = "normalizing" -> {"schema_mismatch"}
      [] stage = "enriching" -> {"enrich_error"}
      [] stage = "writing" -> {"write_error"}

\* A stage of indicator i fails: recorded in i's report slot; a half-built
\* artifact is discarded, the published file is not touched.
StageFails(i) ==
    /\ run = "running"
    /\ state[i] \in InFlight
    /\ \E kind \in StageFailures(state[i]) :
        errKind' = [errKind EXCEPT ![i] = kind]
    /\ state' = FailIndicator(state, i)
    /\ staging' = [staging EXCEPT ![i] = "none"]
    /\ UNCHANGED <<prior, artifact, indexArtifact, run, exitCode>>
    /\ UNCHANGED notPipe

NextBuild(stg) == IF stg = "none" THEN "partial" ELSE "complete"

\* Variant: the writer serializes straight into the published file.
BuildInPlace(files, i) ==
    [artifact |-> [files.artifact EXCEPT ![i] = NextBuild(files.staging[i])],
     staging |-> [files.staging EXCEPT ![i] = NextBuild(@)]]

\* The writer constructs the new artifact in its private file, part by part.
Build(files, i) ==
    [artifact |-> files.artifact,
     staging |-> [files.staging EXCEPT ![i] = NextBuild(@)]]

BuildArtifact(i) ==
    /\ run = "running"
    /\ state[i] = "writing"
    /\ staging[i] # "complete"
    /\ LET files == Build([artifact |-> artifact, staging |-> staging], i)
       IN /\ artifact' = files.artifact
          /\ staging' = files.staging
    /\ UNCHANGED <<state, errKind, prior, indexArtifact, run, exitCode>>
    /\ UNCHANGED notPipe

\* The swap: the fully built artifact replaces the file in one step.
PublishArtifact(i) ==
    /\ run = "running"
    /\ state[i] = "writing"
    /\ staging[i] = "complete"
    /\ artifact' = [artifact EXCEPT ![i] = "new"]
    /\ staging' = [staging EXCEPT ![i] = "none"]
    /\ state' = [state EXCEPT ![i] = "published"]
    /\ UNCHANGED <<errKind, prior, indexArtifact, run, exitCode>>
    /\ UNCHANGED notPipe

\* Variant: the index is written as soon as some indicator has finished.
BarrierSomeTerminal == \E i \in Catalog : state[i] \in Terminal

\* The barrier: every indicator of the run has reached a terminal state.
Barrier == \A i \in Catalog : state[i] \in Terminal

\* The index lists the indicators that have ever published.
WriteIndex ==
    /\ run = "running"
    /\ Barrier
    /\ indexArtifact' = [written |-> TRUE,
                         indicators |-> {i \in Catalog : artifact[i] # "absent"}]
    /\ run' = "indexed"
    /\ UNCHANGED <<state, errKind, prior, artifact, staging, exitCode>>
    /\ UNCHANGED notPipe

\* Variant: any failed indicator makes the run exit nonzero.
ExitCodeStrict(st, files) ==
    IF \E i \in Catalog : st[i] = "failed" THEN 1 ELSE 0

\* 0 if every entry published or still has a published artifact; nonzero
\* if some indicator failed with nothing published for it.
ExitCode(st, files) ==
    IF \E i \in Catalog : st[i] = "failed" /\ files[i] = "absent" THEN 1 ELSE 0

Exit ==
    /\ run = "indexed"
    /\ exitCode' = ExitCode(state, artifact)
    /\ run' = "exited"
    /\ UNCHANGED <<state, errKind, prior, artifact, staging, indexArtifact>>
    /\ UNCHANGED notPipe

\* The process is killed midway; whatever is on disk stays as it is.
Interrupt ==
    /\ run = "running"
    /\ run' = "interrupted"
    /\ UNCHANGED <<state, errKind, prior, artifact, staging, indexArtifact, exitCode>>
    /\ UNCHANGED notPipe

NextPipe ==
    \/ \E i \in Catalog : StartIndicator(i)
    \/ \E i \in Catalog : StageSucceeds(i)
    \/ \E i \in Catalog : StageFails(i)
    \/ \E i \in Catalog : BuildArtifact(i)
    \/ \E i \in Catalog : PublishArtifact(i)
    \/ WriteIndex
    \/ Exit
    \/ Interrupt

SpecPipe == InitPipe /\ [][NextPipe]_vars

\* ------------------------------------------------------------------------
\* Resilient Fetch Client (design sections 4.1, 7, 9)
\* ------------------------------------------------------------------------
\* What one attempt can end with besides a payload.
AttemptErrors == {"timeout", "http_5xx", "connection_reset", "rate_limited",
                  "http_4xx", "tls"}

\* Variant: every error is retried.
RetryableAlways(error) == TRUE

\* Transient errors and rate limiting are retried; other 4xx and TLS errors
\* are fatal for the fetch.
Retryable(error) ==
    error \in {"timeout", "http_5xx", "connection_reset", "rate_limited"}

\* The tag of the FetchError a failed fetch ends with.
FetchErrorTag(error) ==
    CASE error = "timeout" -> "timeout"
      [] error \in {"http_5xx", "http_4xx"} -> "http_status"
      [] error = "connection_reset" -> "network"
      [] error = "rate_limited" -> "rate_limited"
      [] error = "tls" -> "tls"

InitFetch ==
    /\ DashIdle /\ EnrichIdle /\ PipeIdle
    /\ mockMode \in BOOLEAN
    /\ phase = [r \in Requests |-> "idle"]
    /\ attempts = [r \in Requests |-> 0]
    /\ lastError = [r \in Requests |-> "none"]

\* fetch(url, headers, tls_policy) is called: the first attempt starts; in
\* mock mode the synthetic payload is returned without touching the network.
BeginFetch(r) ==
    /\ phase[r] = "idle"
    /\ IF mockMode
       THEN /\ phase' = [phase EXCEPT ![r] = "success"]
            /\ UNCHANGED attempts
       ELSE /\ phase' = [phase EXCEPT ![r] = "attempting"]
            /\ attempts' = [attempts EXCEPT ![r] = 1]
    /\ UNCHANGED <<mockMode, lastError>>
    /\ UNCHANGED notFetch

\* The attempt returns a payload.
AttemptSucceeds(r) ==
    /\ phase[r] = "attempting"
    /\ phase' = [phase EXCEPT ![r] = "success"]
    /\ UNCHANGED <<mockMode, attempts, lastError>>
    /\ UNCHANGED notFetch

\* The attempt ends in an error: back off and retry while the error is
\* retryable and attempts remain, otherwise fail with a FetchError.
AttemptFails(r) ==
    /\ phase[r] = "attempting"
    /\ \E error \in AttemptErrors :
        /\ lastError' = [lastError EXCEPT ![r] = error]
        /\ phase' = [phase EXCEPT ![r] =
                        IF Retryable(error) /\ attempts[r] < MaxAttempts
                        THEN "backoff" ELSE "failed"]
    /\ UNCHANGED <<mockMode, attempts>>
    /\ UNCHANGED notFetch

\* The backoff delay has elapsed: the next attempt starts.
BackoffElapsed(r) ==
    /\ phase[r] = "backoff"
    /\ phase' = [phase EXCEPT ![r] = "attempting"]
    /\ attempts' = [attempts EXCEPT ![r] = @ + 1]
    /\ UNCHANGED <<mockMode, lastError>>
    /\ UNCHANGED notFetch

NextFetch ==
    \/ \E r \in Requests : BeginFetch(r)
    \/ \E r \in Requests : AttemptSucceeds(r)
    \/ \E r \in Requests : AttemptFails(r)
    \/ \E r \in Requests : BackoffElapsed(r)

SpecFetch == InitFetch /\ [][NextFetch]_vars

\* Attempts return and delays elapse; no fetch waits on another.
SpecFetchFair == SpecFetch /\ \A r \in Requests :
    WF_vars(BeginFetch(r) \/ AttemptSucceeds(r) \/ AttemptFails(r) \/ BackoffElapsed(r))

\* ========================================================================
\* Properties
\* ========================================================================

\* ---- Dashboard ----------------------------------------------------------
RejectedIds == {i \in IndicatorIds : fetched[i].status = "rejected"}
DataIds ==
    {i \in IndicatorIds :
        fetched[i].status = "resolved" /\ TruthyData(fetched[i].value)}

\* C8: after fetchIndex succeeded, every indicator whose fetchIndicatorData
\* rejected has its message in errors (the FetchError message, otherwise
\* 'Failed to load data') and no entry in indicatorData; once the results
\* are stored, every indicator whose fetch resolved with data has that data
\* in indicatorData, and is drawn as a Tile once loading is false -
\* whatever the other indicators' fetches did.
C8_LoadIsolatesFailures ==
    /\ \A i \in RejectedIds :
        /\ indexData # Null
        /\ i \in DOMAIN errors
        /\ errors[i] = ErrorMessage(fetched[i].reason)
        /\ i \notin DOMAIN indicatorData
    /\ pc \in {"finally", "done"} =>
        \A i \in DataIds :
            /\ i \in DOMAIN indicatorData
            /\ indicatorData[i] = fetched[i].value
            /\ i \notin DOMAIN errors
    /\ View = "tiles" => \A i \in DataIds : Tiles[i] = "tile"

\* C8 witness: the load is over with two rejected indicators and one that
\* resolved with data.
C8_Witness ==
    /\ pc = "done"
    /\ Cardinality(RejectedIds) >= 2
    /\ DataIds # {}

\* C9: loading eventually becomes false on every path, and whenever loading
\* is false indicatorData already holds the data of every successfully
\* fetched indicator.
C9_LoadingEnds ==
    /\ <>(loading = FALSE)
    /\ [](loading = FALSE =>
            /\ pc = "done"
            /\ indicatorData = NewIndicatorData(promise)
            /\ DOMAIN indicatorData = DataIds)

\* C9 witness: loading is false after a load that mixed a failed and a
\* successful indicator fetch.
C9_Witness ==
    /\ loading = FALSE
    /\ indexData # Null
    /\ DOMAIN errors # {}
    /\ DOMAIN indicatorData # {}

\* C10: when fetchIndex rejected (the outer catch ran), no indicator fetch
\* was started, indexData is null, indicatorData and errors are empty, and
\* once loading is false the 'Failed to load dashboard data' view is
\* rendered, with no tiles.
C10_IndexFailure ==
    logged =>
        /\ \A i \in IndicatorIds : fetched[i] = Idle /\ promise[i] = Idle
        /\ indexData = Null
        /\ indicatorData = EmptyRecord
        /\ errors = EmptyRecord
        /\ loading = FALSE => (View = "failed" /\ Tiles = EmptyRecord)

\* C10 witness: the load is over after fetchIndex rejected.
C10_Witness == logged /\ pc = "done" /\ loading = FALSE

\* C11: once loading is false after a successful index load, every
\* indicator listed in the index has exactly one of an entry in
\* indicatorData (drawn as a Tile) or an entry in errors (drawn as an error
\* tile), never both, and none is drawn as the 'Loading...' placeholder.
C11_EveryTileSettled ==
    (loading = FALSE /\ indexData # Null) =>
        \A i \in indexData.indicators :
            /\ (i \in DOMAIN indicatorData) # (i \in DOMAIN errors)
            /\ i \in DOMAIN indicatorData => Tiles[i] = "tile"
            /\ i \in DOMAIN errors => Tiles[i] = "error"
            /\ Tiles[i] # "placeholder"

\* ---- enrich -------------------------------------------------------------
\* C4: for a series of at least 13 points yoy_pct is defined and equals
\* (s[-1]/s[-13]-1)*100; with fewer than 13 points it is null.
C4_YoyFromThirteenPoints ==
    snapshot.tag = "snapshot" =>
        /\ Len(series) >= 13 =>
            /\ snapshot.yoy_pct # None
            /\ snapshot.yoy_pct = PctChange(ILocBack(series, 1), ILocBack(series, 13))
        /\ Len(series) < 13 => snapshot.yoy_pct = None

\* C5: a percentage delta whose earlier point is 0 or absent is null, and
\* the empty series yields a snapshot whose latest_value is null, not an
\* error.
C5_NoDeltaFromZeroDenominator ==
    snapshot # NoSnapshot =>
        /\ snapshot.tag = "snapshot"
        /\ Len(series) = 0 => snapshot.latest_value = None
        /\ (Len(series) < 2 \/ ILocBack(series, 2) = 0) => snapshot.mom_pct = None
        /\ (Len(series) < 13 \/ ILocBack(series, 13) = 0) => snapshot.yoy_pct = None

C2_IndexAfterBarrier ==
    indexArtifact.written => \A i \in Catalog : state[i] \in Terminal

\* C2 witness: the index is written after a run in which one indicator
\* failed while writing and another published.
C2_Witness ==
    /\ indexArtifact.written
    /\ \E i \in Catalog : errKind[i] = "write_error"
    /\ \E i \in Catalog : state[i] = "published"

\* C3: at every point of a run, interrupted or not, a reader of an
\* indicator's artifact sees the complete previous artifact or the complete
\* new one; before the swap, and after a failure, it is the previous one.
C3_AtomicArtifact ==
    \A i \in Catalog :
        /\ ReaderSees(i) \in {prior[i], "new"}
        /\ ReaderSees(i) # "partial"
        /\ state[i] # "published" => ReaderSees(i) = prior[i]
        /\ state[i] = "published" => ReaderSees(i) = "new"

\* C3 witness: the run was interrupted while one artifact was half built
\* over a published one, and another write had failed.
C3_Witness ==
    /\ run = "interrupted"
    /\ \E i \in Catalog :
        state[i] = "writing" /\ staging[i] = "partial" /\ prior[i] = "old"
    /\ \E i \in Catalog : errKind[i] = "write_error"

====
